---------------------------- MODULE Spec2Model ----------------------------
(***************************************************************************)
(* Biometric attendance: the REST API (students, attendance) and the       *)
(* browser client's descriptor averaging and nearest-neighbour matching.   *)
(*                                                                         *)
(* Strings are sequences of one-character strings, so that toUpperCase     *)
(* and trim are computed.  A JSON value that may be absent is a record     *)
(* [kind, v].  A number is an exact rational <<n, d>> in lowest terms with *)
(* d > 0; NaN is <<0, 0>> and a JSON null inside an array is <<1, 0>>.     *)
(***************************************************************************)
EXTENDS Integers, Sequences, FiniteSets, TLC

(***************************************************************************)
(* Bounds of the model.                                                    *)
(***************************************************************************)
MaxClock == 3          \* the server clock runs over 0..MaxClock ticks
TicksPerDay == 2       \* clock ticks that fall on one calendar day
MaxAttendance == 3     \* documents the attendances collection may hold
MaxVerified == 1       \* check-ins admitted while the matcher is exercised
MaxEnrolled == 2       \* students enrolled when the matcher is exercised
MaxInits == 2          \* camera init calls that reach getUserMedia
MaxTimers == 1         \* pending setTimeout callbacks per view
MaxSamples == 4        \* face samples the browser may hold captured

(***************************************************************************)
(* Program constants.                                                      *)
(***************************************************************************)
DescriptorLength == 128    \* faceDescriptor.length !== 128
ConfidenceMin == 0         \* attendanceSchema.confidence.min
ConfidenceMax == 100       \* attendanceSchema.confidence.max

Procs == {"h1", "h2"}      \* request handlers that may be in flight at once

(***************************************************************************)
(* Strings.                                                                *)
(***************************************************************************)
UpperChar(c) ==
  IF c = "a" THEN "A" ELSE IF c = "b" THEN "B" ELSE c

\* String.prototype.toUpperCase
ToUpperCase(s) == [i \in 1..Len(s) |-> UpperChar(s[i])]

RECURSIVE TrimStart(_)
TrimStart(s) ==
  IF s # <<>> /\ Head(s) = " " THEN TrimStart(Tail(s)) ELSE s

RECURSIVE TrimEnd(_)
TrimEnd(s) ==
  IF s # <<>> /\ s[Len(s)] = " " THEN TrimEnd(SubSeq(s, 1, Len(s) - 1)) ELSE s

\* String.prototype.trim, and the schema option trim: true
Trim(s) == TrimEnd(TrimStart(s))

\* !s for a string (or absent) field of the request body
Falsy(s) == s = <<>>

(***************************************************************************)
(* Numbers.                                                                *)
(***************************************************************************)
Abs(n) == IF n < 0 THEN -n ELSE n

RECURSIVE Gcd(_, _)
Gcd(a, b) == IF b = 0 THEN a ELSE Gcd(b, a % b)

\* the rational n / d (d > 0) in lowest terms
Rat(n, d) ==
  LET g == Gcd(Abs(n), d) IN <<n \div g, d \div g>>

NaN == <<0, 0>>
NullNumber == <<1, 0>>
IsNaN(x) == x = NaN

\* the number an operand of an arithmetic operator stands for: null is 0
ToNumber(x) == IF x = NullNumber THEN <<0, 1>> ELSE x

\* x + y
Plus(x, y) ==
  LET a == ToNumber(x)
      b == ToNumber(y)
  IN  IF IsNaN(a) \/ IsNaN(b) THEN NaN
      ELSE Rat(a[1] * b[2] + b[1] * a[2], a[2] * b[2])

\* x - y
Minus(x, y) ==
  LET a == ToNumber(x)
      b == ToNumber(y)
  IN  IF IsNaN(a) \/ IsNaN(b) THEN NaN
      ELSE Rat(a[1] * b[2] - b[1] * a[2], a[2] * b[2])

\* x * y
Times(x, y) ==
  LET a == ToNumber(x)
      b == ToNumber(y)
  IN  IF IsNaN(a) \/ IsNaN(b) THEN NaN
      ELSE Rat(a[1] * b[1], a[2] * b[2])

\* x / k for an array length k; 0 / 0 is NaN
DividedBy(x, k) ==
  LET a == ToNumber(x)
  IN  IF IsNaN(a) \/ k = 0 THEN NaN ELSE Rat(a[1], a[2] * k)

\* x < y; a comparison with NaN is false
LessThan(x, y) ==
  LET a == ToNumber(x)
      b == ToNumber(y)
  IN  ~IsNaN(a) /\ ~IsNaN(b) /\ a[1] * b[2] < b[1] * a[2]

\* a[i]; reading past the end gives undefined, which is NaN in arithmetic
At(a, i) == IF i \in 1..Len(a) THEN a[i] ELSE NaN

(***************************************************************************)
(* JSON values of a request body that need not be strings.                 *)
(***************************************************************************)
Undefined == [kind |-> "undefined", v |-> <<>>]
ArrayOf(v) == [kind |-> "array", v |-> v]
TextOf(v) == [kind |-> "string", v |-> v]
NumberOf(n) == [kind |-> "number", v |-> <<Rat(n, 1)>>]
Null == [kind |-> "null", v |-> <<>>]
\* a string that spells the number q, such as "99.5"
NumericText(q) == [kind |-> "numeric string", v |-> <<q>>]

\* Mongoose casting a value to the schema type Number
CastNumber(x) ==
  IF x.kind = "numeric string" THEN [kind |-> "number", v |-> x.v] ELSE x

\* !x for such a value: undefined, null and 0 are falsy, arrays are truthy
FalsyValue(x) ==
  \/ x.kind \in {"undefined", "null"}
  \/ x.kind = "number" /\ x.v[1] = Rat(0, 1)
  \/ x.kind = "string" /\ x.v = <<>>

\* Array.isArray
IsArray(x) == x.kind = "array"

(***************************************************************************)
(* State.                                                                  *)
(***************************************************************************)
VARIABLES
  students,            \* the students collection, in insertion order
  attendance,          \* the attendances collection, in insertion order
  now,                 \* the server clock
  pc,                  \* per handler: where the request it serves stands
  doc,                 \* per handler: the document it built and is about to save
  resp,                \* the response sent last
  await,               \* per handler: the browser's fetch that awaits its answer
  inbox,               \* answers on their way to the browser's awaiting code
  registerDetections,  \* descriptors of the faces in the register view
  checkInDetections,   \* descriptors of the faces in the check-in view
  capturedSamples,     \* the samples captured for the registration
  studentDescriptors,  \* the browser's copy of the enrolled descriptors
  pendingLoad,         \* loadDescriptors() was called and has not fetched yet
  sent,                \* the request the browser sent last
  alert,               \* the title of the notification shown last
  activeView,          \* the page that has the class active
  modelsLoaded,        \* modelsLoaded
  loadingModels,       \* loadModels() is awaiting the nets
  viewStream,          \* checkInStream and registerStream
  viewInterval,        \* checkInInterval and registerInterval
  srcObject,           \* video.srcObject of the two video elements
  stopShown,           \* the stop buttons that do not have the class hidden
  stopOnclick,         \* the stop buttons whose onclick is set
  liveStreams,         \* the streams with tracks that were not stopped
  runningIntervals,    \* the intervals that were not cleared
  initCalls,           \* the init calls awaiting inside startCamera
  timers,              \* per view: pending setTimeout callbacks that init it
  started              \* init calls that reached getUserMedia so far

serverVars == <<students, attendance, now, pc, doc, resp>>
cameraVars ==
  <<activeView, modelsLoaded, loadingModels, viewStream, viewInterval,
    srcObject, stopShown, stopOnclick, liveStreams, runningIntervals,
    initCalls, timers, started>>
clientVars ==
  <<registerDetections, checkInDetections, capturedSamples,
    studentDescriptors, pendingLoad, sent, alert, cameraVars>>
vars == <<serverVars, await, inbox, clientVars>>

NoDoc == [studentId |-> <<>>]
NoResp ==
  [op |-> "none", key |-> <<>>, status |-> 0, message |-> "", data |-> <<>>]

\* res.status(status).json({ message (or error), data }) to a request of
\* route op for studentId key
Response(op, key, status, message, data) ==
  [op |-> op, key |-> key, status |-> status, message |-> message, data |-> data]

\* the answer as the browser's fetch receives it: data.success, data.message
Answer(kind, r) ==
  [ kind |-> kind, success |-> r.status \in {200, 201},
    message |-> r.message, data |-> <<>> ]

\* the answer of handler p goes to the fetch that awaits it, if one does
Deliver(p, r) ==
  /\ inbox' = IF await[p] = "none" THEN inbox
              ELSE inbox \cup {Answer(await[p], r)}
  /\ await' = [await EXCEPT ![p] = "none"]

\* a fetch of the browser reached handler p: the answer, if p has given it,
\* goes back; otherwise the fetch awaits p
Fetched(p, kind) ==
  IF pc'[p] = "idle"
    THEN inbox' = inbox \cup {Answer(kind, resp')} /\ await' = await
    ELSE inbox' = inbox /\ await' = [await EXCEPT ![p] = kind]

NoRequest == [op |-> "none", body |-> [studentId |-> <<>>]]

\* new Date().toLocaleDateString(): the calendar day the clock falls on
ToLocaleDateString(t) == t \div TicksPerDay

(***************************************************************************)
(* Request bodies the API may be sent.                                     *)
(***************************************************************************)
\* A vector of the given length: the numbers x, y in the first two places,
\* 0 elsewhere
Vec(len, x, y) ==
  [i \in 1..len |-> IF i = 1 THEN x ELSE IF i = 2 THEN y ELSE Rat(0, 1)]

KeyInputs == {<<>>, <<"a">>, <<"A">>, <<"b">>}
RegisterKeyInputs == KeyInputs \cup {<<" ", "a">>}
NameInputs == {<<>>, <<" ">>, <<"n", " ">>}
CourseInputs == {<<>>, <<"c">>}
DescriptorInputs ==
  { Undefined, TextOf(<<"x">>), ArrayOf(<<>>),
    ArrayOf(Vec(DescriptorLength, Rat(0, 1), Rat(0, 1))),
    ArrayOf(Vec(DescriptorLength - 1, Rat(0, 1), Rat(0, 1))),
    ArrayOf(Vec(DescriptorLength + 1, Rat(0, 1), Rat(0, 1))) }
ConfidenceInputs ==
  { Undefined, NumberOf(0), NumberOf(ConfidenceMax), NumberOf(ConfidenceMax + 1) }

\* The bodies sent: a well-formed body under every key, and that body with
\* one field replaced by each other value of the field
GoodRegister(id) ==
  [ studentId |-> id, name |-> <<"n", " ">>, course |-> <<"c">>,
    faceDescriptor |-> ArrayOf(Vec(DescriptorLength, Rat(0, 1), Rat(0, 1))) ]

RegisterBodies ==
  { GoodRegister(id) : id \in RegisterKeyInputs }
    \cup { [GoodRegister(<<"a">>) EXCEPT !.name = n] : n \in NameInputs }
    \cup { [GoodRegister(<<"a">>) EXCEPT !.course = c] : c \in CourseInputs }
    \cup { [GoodRegister(<<"a">>) EXCEPT !.faceDescriptor = d] :
             d \in DescriptorInputs }

GoodCheckin(id) ==
  [ studentId |-> id, name |-> <<"n", " ">>, course |-> <<"c">>,
    confidence |-> NumberOf(ConfidenceMax) ]

CheckinBodies ==
  { GoodCheckin(id) : id \in KeyInputs }
    \cup { [GoodCheckin(<<"a">>) EXCEPT !.name = n] : n \in NameInputs }
    \cup { [GoodCheckin(<<"a">>) EXCEPT !.course = c] : c \in CourseInputs }
    \cup { [GoodCheckin(<<"a">>) EXCEPT !.confidence = c] :
             c \in ConfidenceInputs }

UpdateDescriptorInputs ==
  { Undefined, ArrayOf(<<>>),
    ArrayOf(Vec(DescriptorLength, Rat(3, 10), Rat(0, 1))),
    ArrayOf(Vec(DescriptorLength - 1, Rat(3, 10), Rat(0, 1))) }
ParamInputs == RegisterKeyInputs \ {<<>>}

EmptyUpdate ==
  [ name |-> <<>>, course |-> <<>>, faceDescriptor |-> Undefined ]

UpdateBodies ==
  { [EmptyUpdate EXCEPT !.name = n] : n \in {<<>>, <<" ">>} }
    \cup { [EmptyUpdate EXCEPT !.course = c] : c \in {<<"c", " ">>} }
    \cup { [EmptyUpdate EXCEPT !.faceDescriptor = d] :
             d \in UpdateDescriptorInputs }

(***************************************************************************)
(* Mongoose: schema setters, validation, queries.                          *)
(***************************************************************************)
\* studentSchema.studentId: trim: true, uppercase: true (run on documents
\* and on query filters)
StudentIdSetter(s) == ToUpperCase(Trim(s))

\* required: true on a String path
RequiredString(s) == s # <<>>

\* the filter with isActive: true added
StudentMatchesActive(id) ==
  { i \in 1..Len(students) :
      students[i].studentId = StudentIdSetter(id) /\ students[i].isActive }

\* Student.findOne({ studentId }): the documents the filter selects
StudentMatches(id) ==
  { i \in 1..Len(students) : students[i].studentId = StudentIdSetter(id) }

\* the findOne that finds no attendance of the day
AttendanceMatchesNone(id, date) == {}

\* Attendance.findOne({ studentId, date })
AttendanceMatches(id, date) ==
  { i \in 1..Len(attendance) :
      attendance[i].studentId = id /\ attendance[i].date = date }

\* findOne answers the first document in natural order
First(S) == CHOOSE i \in S : \A j \in S : i <= j

\* studentSchema validation at save()
StudentValid(d) ==
  /\ RequiredString(d.studentId)
  /\ RequiredString(d.name)
  /\ RequiredString(d.course)

\* an index that is not unique
StudentIndexAcceptsAll(d) == TRUE

\* unique: true on studentSchema.studentId: the index refuses a second
\* document with the same key (E11000)
StudentIndexAccepts(d) ==
  \A i \in 1..Len(students) : students[i].studentId # d.studentId

\* attendanceSchema.confidence: Number, min 0, max 100; null is not validated
ConfidenceValid(c) ==
  \/ c.kind = "null"
  \/ /\ c.kind = "number"
     /\ ~LessThan(c.v[1], Rat(ConfidenceMin, 1))
     /\ ~LessThan(Rat(ConfidenceMax, 1), c.v[1])

\* attendanceSchema validation at save()
AttendanceValid(d) ==
  /\ RequiredString(d.studentId)
  /\ RequiredString(d.name)
  /\ RequiredString(d.course)
  /\ ConfidenceValid(d.confidence)

\* attendanceSchema.index({ studentId: 1, date: 1 }): not unique, so it
\* refuses nothing
AttendanceIndexAccepts(d) == TRUE

(***************************************************************************)
(* POST /api/students/register                                             *)
(***************************************************************************)
\* new Student({...}): the document, after the schema setters
NewStudent(body) ==
  [ studentId |-> StudentIdSetter(ToUpperCase(body.studentId)),
    name |-> Trim(Trim(body.name)),
    course |-> Trim(Trim(body.course)),
    faceDescriptor |-> body.faceDescriptor.v,
    isActive |-> TRUE ]

\* the validation of the body
RegisterMissing(body) ==
  \/ Falsy(body.studentId)
  \/ Falsy(body.name)
  \/ Falsy(body.course)
  \/ FalsyValue(body.faceDescriptor)

\* the check as a lower bound on the length
RegisterBadDescriptorShort(body) ==
  \/ ~IsArray(body.faceDescriptor)
  \/ Len(body.faceDescriptor.v) < DescriptorLength

RegisterBadDescriptor(body) ==
  \/ ~IsArray(body.faceDescriptor)
  \/ Len(body.faceDescriptor.v) # DescriptorLength

\* from the request to the answer of findOne
RegisterRecv(p, body) ==
  /\ pc[p] = "idle"
  /\ IF RegisterMissing(body)
       THEN /\ resp' = Response("register", body.studentId, 400,
                                "fields required", <<>>)
            /\ UNCHANGED <<pc, doc>>
     ELSE IF RegisterBadDescriptor(body)
       THEN /\ resp' = Response("register", body.studentId, 400,
                                "invalid descriptor", <<>>)
            /\ UNCHANGED <<pc, doc>>
     ELSE IF StudentMatches(ToUpperCase(body.studentId)) # {}
       THEN /\ resp' = Response("register", body.studentId, 409, "already registered", <<>>)
            /\ UNCHANGED <<pc, doc>>
     ELSE /\ pc' = [pc EXCEPT ![p] = "regSave"]
          /\ doc' = [doc EXCEPT ![p] = NewStudent(body)]
          /\ UNCHANGED resp
  /\ UNCHANGED <<students, attendance, now>>

\* a request sent to the API directly
RegisterRequest(p) ==
  /\ \E body \in RegisterBodies : RegisterRecv(p, body)
  /\ UNCHANGED <<await, inbox, clientVars>>

\* await student.save(), and the answer
\* timestamps: true, at save(): updatedAt is the time of the write
\* (createdAt and registeredAt are written once and never again)
Timestamped(d) ==
  [ f \in DOMAIN d \cup {"updatedAt"} |->
      IF f = "updatedAt" THEN now ELSE d[f] ]

RegisterSave(p) ==
  /\ pc[p] = "regSave"
  /\ IF ~StudentValid(doc[p])
       THEN /\ resp' = Response("register", doc[p].studentId, 500,
                                "validation failed", <<>>)
            /\ UNCHANGED students
     ELSE IF ~StudentIndexAccepts(doc[p])
       THEN /\ resp' = Response("register", doc[p].studentId, 500,
                                "duplicate key", <<>>)
            /\ UNCHANGED students
     ELSE /\ students' = Append(students, Timestamped(doc[p]))
          /\ resp' = Response("register", doc[p].studentId, 201, "", <<>>)
  /\ pc' = [pc EXCEPT ![p] = "idle"]
  /\ doc' = [doc EXCEPT ![p] = NoDoc]
  /\ Deliver(p, resp')
  /\ UNCHANGED <<attendance, now, clientVars>>

(***************************************************************************)
(* PUT /api/students/:studentId                                            *)
(***************************************************************************)
UpdateBadDescriptor(body) ==
  /\ ~FalsyValue(body.faceDescriptor)
  /\ \/ ~IsArray(body.faceDescriptor)
     \/ Len(body.faceDescriptor.v) # DescriptorLength

\* updateData applied to a stored document; timestamps: true makes
\* findOneAndUpdate set updatedAt as well
ApplyUpdate(s, body) ==
  [ s EXCEPT
      !.name = IF Falsy(body.name) THEN @ ELSE Trim(Trim(body.name)),
      !.course = IF Falsy(body.course) THEN @ ELSE Trim(Trim(body.course)),
      !.faceDescriptor = IF FalsyValue(body.faceDescriptor) THEN @
                         ELSE body.faceDescriptor.v,
      !.updatedAt = now ]

UpdateStudent(id, body) ==
  /\ IF UpdateBadDescriptor(body)
       THEN /\ resp' = Response("update", id, 400, "invalid descriptor", <<>>)
            /\ UNCHANGED students
     ELSE IF StudentMatches(ToUpperCase(id)) = {}
       THEN /\ resp' = Response("update", id, 404, "not found", <<>>)
            /\ UNCHANGED students
     ELSE /\ students' =
               [students EXCEPT ![First(StudentMatches(ToUpperCase(id)))] =
                  ApplyUpdate(@, body)]
          /\ resp' = Response("update", id, 200, "", <<>>)
  /\ UNCHANGED <<attendance, now, pc, doc>>

UpdateRequest ==
  /\ \E id \in ParamInputs, body \in UpdateBodies : UpdateStudent(id, body)
  /\ UNCHANGED <<await, inbox, clientVars>>

(***************************************************************************)
(* DELETE /api/students/:studentId                                         *)
(***************************************************************************)
\* the delete that erases the student's document
DeleteStudentErase(id) ==
  /\ IF StudentMatches(ToUpperCase(id)) = {}
       THEN /\ resp' = Response("delete", id, 404, "not found", <<>>)
            /\ UNCHANGED students
       ELSE /\ students' =
                 [ i \in 1..(Len(students) - 1) |->
                     IF i < First(StudentMatches(ToUpperCase(id)))
                       THEN students[i] ELSE students[i + 1] ]
            /\ resp' = Response("delete", id, 200, "", <<>>)
  /\ UNCHANGED <<attendance, now, pc, doc>>

\* the delete that also removes the student's attendance records
DeleteStudentCascade(id) ==
  /\ IF StudentMatches(ToUpperCase(id)) = {}
       THEN /\ resp' = Response("delete", id, 404, "not found", <<>>)
            /\ UNCHANGED <<students, attendance>>
       ELSE /\ students' =
                 [students EXCEPT ![First(StudentMatches(ToUpperCase(id)))] =
                    [@ EXCEPT !.isActive = FALSE, !.updatedAt = now]]
            /\ attendance' =
                 SelectSeq(attendance,
                           LAMBDA r : r.studentId # ToUpperCase(id))
            /\ resp' = Response("delete", id, 200, "", <<>>)
  /\ UNCHANGED <<now, pc, doc>>

DeleteStudent(id) ==
  /\ IF StudentMatches(ToUpperCase(id)) = {}
       THEN /\ resp' = Response("delete", id, 404, "not found", <<>>)
            /\ UNCHANGED students
       ELSE /\ students' =
                 [students EXCEPT ![First(StudentMatches(ToUpperCase(id)))] =
                    [@ EXCEPT !.isActive = FALSE, !.updatedAt = now]]
            /\ resp' = Response("delete", id, 200, "", <<>>)
  /\ UNCHANGED <<attendance, now, pc, doc>>

DeleteRequest ==
  /\ \E id \in ParamInputs : DeleteStudent(id)
  /\ UNCHANGED <<await, inbox, clientVars>>

(***************************************************************************)
(* POST /api/attendance/checkin                                            *)
(***************************************************************************)
CheckinMissing(body) ==
  \/ Falsy(body.studentId)
  \/ Falsy(body.name)
  \/ Falsy(body.course)

\* the key stored as it was sent
NewAttendanceAsSent(body, today) ==
  [ studentId |-> body.studentId,
    name |-> Trim(body.name),
    course |-> Trim(body.course),
    date |-> today,
    confidence |-> IF FalsyValue(body.confidence) THEN Null
                   ELSE body.confidence ]

\* new Attendance({...})
NewAttendance(body, today) ==
  [ studentId |-> ToUpperCase(body.studentId),
    name |-> Trim(body.name),
    course |-> Trim(body.course),
    date |-> today,
    confidence |-> IF FalsyValue(body.confidence) THEN Null
                   ELSE CastNumber(body.confidence) ]

\* from the request to the answer of findOne
CheckinRecv(p, body) ==
  LET today == ToLocaleDateString(now)
      found == AttendanceMatches(ToUpperCase(body.studentId), today)
  IN
  /\ pc[p] = "idle"
  /\ IF CheckinMissing(body)
       THEN /\ resp' = Response("checkin", body.studentId, 400, "information required", <<>>)
            /\ UNCHANGED <<pc, doc>>
     ELSE IF found # {}
       THEN /\ resp' = Response("checkin", body.studentId, 409,
                                "already checked in",
                                <<attendance[First(found)]>>)
            /\ UNCHANGED <<pc, doc>>
     ELSE /\ pc' = [pc EXCEPT ![p] = "chkSave"]
          /\ doc' = [doc EXCEPT ![p] = NewAttendance(body, today)]
          /\ UNCHANGED resp
  /\ UNCHANGED <<students, attendance, now>>

\* a request sent to the API directly
CheckinRequest(p) ==
  /\ Len(attendance) < MaxAttendance
  /\ \E body \in CheckinBodies : CheckinRecv(p, body)
  /\ UNCHANGED <<await, inbox, clientVars>>

\* await attendance.save(), and the answer
CheckinSave(p) ==
  /\ pc[p] = "chkSave"
  /\ IF ~AttendanceValid(doc[p])
       THEN /\ resp' = Response("checkin", doc[p].studentId, 500,
                                "validation failed", <<>>)
            /\ UNCHANGED attendance
     ELSE IF ~AttendanceIndexAccepts(doc[p])
       THEN /\ resp' = Response("checkin", doc[p].studentId, 500,
                                "duplicate key", <<>>)
            /\ UNCHANGED attendance
     ELSE /\ attendance' = Append(attendance, doc[p])
          /\ resp' = Response("checkin", doc[p].studentId, 201, "", <<doc[p]>>)
  /\ pc' = [pc EXCEPT ![p] = "idle"]
  /\ doc' = [doc EXCEPT ![p] = NoDoc]
  /\ Deliver(p, resp')
  /\ UNCHANGED <<students, now, clientVars>>

(***************************************************************************)
(* The server clock.                                                       *)
(***************************************************************************)
Tick ==
  /\ now < MaxClock
  /\ now' = now + 1
  /\ UNCHANGED <<students, attendance, pc, doc, resp>>
  /\ UNCHANGED <<await, inbox, clientVars>>

(***************************************************************************)
(* GET /api/students/descriptors                                           *)
(***************************************************************************)
\* the order of the code units of the characters used
CharCode(c) ==
  CASE c = " " -> 32 [] c = "A" -> 65 [] c = "B" -> 66 [] c = "a" -> 97
    [] c = "b" -> 98 [] c = "c" -> 99 [] c = "n" -> 110 [] OTHER -> 120

\* string a sorts before string b
RECURSIVE StringBefore(_, _)
StringBefore(a, b) ==
  IF b = <<>> THEN FALSE
  ELSE IF a = <<>> THEN TRUE
  ELSE IF Head(a) # Head(b) THEN CharCode(Head(a)) < CharCode(Head(b))
  ELSE StringBefore(Tail(a), Tail(b))

\* Student.find({ isActive: true })
ActiveStudents == { i \in 1..Len(students) : students[i].isActive }

\* .sort({ name: 1 }): the orders of the selected documents a sort by name
\* may give (documents with equal names come in any order)
SortedByName(S) ==
  { o \in [1..Cardinality(S) -> S] :
      /\ \A i, j \in 1..Cardinality(S) : o[i] = o[j] => i = j
      /\ \A i, j \in 1..Cardinality(S) :
           i < j => ~StringBefore(students[o[j]].name, students[o[i]].name) }

\* students.map(s => ({ id, name, course, faceData }))
DescriptorEntry(st) ==
  [ id |-> st.studentId, name |-> st.name, course |-> st.course,
    faceData |-> st.faceDescriptor ]

(***************************************************************************)
(* The browser: registration.                                              *)
(***************************************************************************)
MinSamples == 3        \* capturedSamples.length < 3

\* what the face model may report for a frame: descriptors of the fixed
\* length, and, the model being a dependency the page does not check,
\* of another length
SampleInputs ==
  { Vec(DescriptorLength, Rat(3, 10), Rat(0, 1)),
    Vec(DescriptorLength, Rat(0, 1), Rat(0, 1)),
    Vec(DescriptorLength + 1, Rat(3, 10), Rat(0, 1)) }

\* the detection loop's callback of the register view
DetectRegister ==
  /\ registerDetections' \in {<<>>} \cup { <<v>> : v \in SampleInputs }
  /\ registerDetections' # registerDetections
  /\ UNCHANGED <<serverVars, cameraVars, await, inbox, checkInDetections, capturedSamples,
                 studentDescriptors, pendingLoad, sent, alert>>

\* click on captureFace
CaptureFace ==
  /\ Len(capturedSamples) < MaxSamples
  /\ IF Len(registerDetections) = 0
       THEN /\ alert' = "No Face Detected"
            /\ UNCHANGED capturedSamples
       ELSE /\ capturedSamples' = Append(capturedSamples, registerDetections[1])
            /\ alert' = "Captured!"
  /\ UNCHANGED <<serverVars, cameraVars, await, inbox, registerDetections,
                 checkInDetections, studentDescriptors, pendingLoad, sent>>

\* capturedSamples.reduce((acc, sample) => acc + sample[i], 0)
RECURSIVE SumComponent(_, _)
SumComponent(samples, i) ==
  IF samples = <<>> THEN Rat(0, 1)
  ELSE Plus(SumComponent(SubSeq(samples, 1, Len(samples) - 1), i),
            At(samples[Len(samples)], i))

\* the sums, not divided
AvgDescriptorNoDivide(samples) ==
  [i \in 1..Len(samples[1]) |-> SumComponent(samples, i)]

\* capturedSamples[0].map((_, i) => sum / capturedSamples.length)
AvgDescriptor(samples) ==
  [i \in 1..Len(samples[1]) |->
     DividedBy(SumComponent(samples, i), Len(samples))]

\* JSON.stringify of an array of numbers: NaN is written as null
JsonArray(v) ==
  [i \in 1..Len(v) |-> IF IsNaN(v[i]) THEN NullNumber ELSE v[i]]

\* the values of reg_id, reg_name, reg_course
GoodForm == [id |-> <<" ", "a">>, name |-> <<"n", " ">>, course |-> <<"c">>]
FormInputs ==
  { GoodForm, [GoodForm EXCEPT !.id = <<" ">>],
    [GoodForm EXCEPT !.name = <<>>], [GoodForm EXCEPT !.course = <<>>] }

\* the body of the registration request
RegisterBody(form, samples) ==
  [ studentId |-> ToUpperCase(Trim(form.id)),
    name |-> Trim(form.name),
    course |-> Trim(form.course),
    faceDescriptor |-> ArrayOf(JsonArray(AvgDescriptor(samples))) ]

\* click on registerStudent, up to the fetch reaching the server
RegisterClick ==
  \E form \in FormInputs :
    LET body == RegisterBody(form, capturedSamples) IN
    IF Falsy(ToUpperCase(Trim(form.id))) \/ Falsy(Trim(form.name))
         \/ Falsy(Trim(form.course))
      THEN /\ alert' = "Missing Fields"
           /\ UNCHANGED <<serverVars, cameraVars, await, inbox, registerDetections,
                          checkInDetections, capturedSamples,
                          studentDescriptors, pendingLoad, sent>>
    ELSE IF Len(capturedSamples) < MinSamples
      THEN /\ alert' = "Missing Face Samples"
           /\ UNCHANGED <<serverVars, cameraVars, await, inbox, registerDetections,
                          checkInDetections, capturedSamples,
                          studentDescriptors, pendingLoad, sent>>
    ELSE \E p \in Procs :
           /\ RegisterRecv(p, body)
           /\ Fetched(p, "register")
           /\ sent' = [op |-> "register", body |-> body]
           /\ UNCHANGED <<cameraVars, registerDetections, checkInDetections,
                          capturedSamples, studentDescriptors, pendingLoad,
                          alert>>

\* the code after await fetch(.../students/register)
RegisterAnswered ==
  \E a \in inbox :
    /\ a.kind = "register"
    /\ inbox' = inbox \ {a}
    /\ IF a.success
         THEN /\ alert' = "Success"
              /\ capturedSamples' = <<>>
              /\ pendingLoad' = TRUE
         ELSE /\ alert' = "Error"
              /\ UNCHANGED <<capturedSamples, pendingLoad>>
    /\ UNCHANGED <<serverVars, cameraVars, await, registerDetections, checkInDetections,
                   studentDescriptors, sent>>

\* loadDescriptors(), up to the server's answer
LoadDescriptors ==
  /\ pendingLoad
  /\ pendingLoad' = FALSE
  /\ \E o \in SortedByName(ActiveStudents) :
       inbox' = inbox \cup
         { [ kind |-> "descriptors", success |-> TRUE, message |-> "",
             data |-> [k \in 1..Len(o) |-> DescriptorEntry(students[o[k]])] ] }
  /\ UNCHANGED <<serverVars, cameraVars, await, registerDetections, checkInDetections,
                 capturedSamples, studentDescriptors, sent, alert>>

\* studentDescriptors = json.data || []
DescriptorsLoaded ==
  \E a \in inbox :
    /\ a.kind = "descriptors"
    /\ inbox' = inbox \ {a}
    /\ studentDescriptors' = a.data
    /\ UNCHANGED <<serverVars, cameraVars, await, registerDetections, checkInDetections,
                   capturedSamples, pendingLoad, sent, alert>>

(***************************************************************************)
(* The browser: check-in.                                                  *)
(***************************************************************************)
\* Math.sqrt(x), kept as the root of the rational x; a root of NaN is NaN
Sqrt(x) == [sqrtOf |-> x]

\* x < y for two roots: the root is increasing, and NaN compares false
DistanceLess(x, y) == LessThan(x.sqrtOf, y.sqrtOf)

\* let bestDistance = 0.6
Threshold == Sqrt(Rat(9, 25))

\* the sum of the differences, not squared
RECURSIVE SumOfDifferences(_, _, _, _)
SumOfDifferences(a, b, lo, hi) ==
  IF lo > hi THEN Rat(0, 1)
  ELSE IF lo = hi THEN Minus(a[lo], At(b, lo))
  ELSE LET mid == (lo + hi) \div 2
       IN  Plus(SumOfDifferences(a, b, lo, mid),
                SumOfDifferences(a, b, mid + 1, hi))

\* a.reduce((sum, val, i) => sum + Math.pow(val - b[i], 2), 0), for the
\* entries lo..hi of a; the sum is exact, so it is taken by halves
RECURSIVE SquaredSum(_, _, _, _)
SquaredSum(a, b, lo, hi) ==
  IF lo > hi THEN Rat(0, 1)
  ELSE IF lo = hi
    THEN LET diff == Minus(a[lo], At(b, lo)) IN Times(diff, diff)
  ELSE LET mid == (lo + hi) \div 2
       IN  Plus(SquaredSum(a, b, lo, mid), SquaredSum(a, b, mid + 1, hi))

\* what the face model may report for a frame of the check-in view
ProbeInputs ==
  { Vec(DescriptorLength, Rat(0, 1), Rat(0, 1)),
    Vec(DescriptorLength, Rat(3, 10), Rat(0, 1)),
    Vec(DescriptorLength - 1, Rat(0, 1), Rat(0, 1)),
    Vec(DescriptorLength + 1, Rat(0, 1), Rat(0, 1)) }

\* the descriptors students may be enrolled with
EnrolledVectors ==
  { Vec(DescriptorLength, Rat(0, 1), Rat(0, 1)),
    Vec(DescriptorLength, Rat(3, 10), Rat(0, 1)),
    Vec(DescriptorLength, Rat(3, 5), Rat(0, 1)),
    Vec(DescriptorLength, Rat(9, 10), Rat(0, 1)) }

\* the sums of squares for the descriptors above, computed once
KnownSquaredSums ==
  { <<ab, SquaredSum(ab[1], ab[2], 1, Len(ab[1]))>> :
      ab \in (ProbeInputs \cup EnrolledVectors)
               \X (ProbeInputs \cup EnrolledVectors) }

euclideanDistance(a, b) ==
  LET known == { e \in KnownSquaredSums : e[1] = <<a, b>> }
  IN  Sqrt(IF known # {} THEN (CHOOSE e \in known : TRUE)[2]
           ELSE SquaredSum(a, b, 1, Len(a)))

\* the forEach over the first n students with distance <= bestDistance
RECURSIVE MatchUpToOrEqual(_, _, _)
MatchUpToOrEqual(probe, list, n) ==
  IF n = 0 THEN [match |-> 0, distance |-> Threshold]
  ELSE LET prev == MatchUpToOrEqual(probe, list, n - 1)
           distance == euclideanDistance(probe, list[n].faceData)
       IN  IF ~IsNaN(distance.sqrtOf) /\ ~DistanceLess(prev.distance, distance)
             THEN [match |-> n, distance |-> distance]
             ELSE prev

BestMatchOrEqual(probe, list) == MatchUpToOrEqual(probe, list, Len(list))

\* studentDescriptors.forEach(...): bestMatch (0 for null) and bestDistance
\* after the first n students
RECURSIVE MatchUpTo(_, _, _)
MatchUpTo(probe, list, n) ==
  IF n = 0 THEN [match |-> 0, distance |-> Threshold]
  ELSE LET prev == MatchUpTo(probe, list, n - 1)
           distance == euclideanDistance(probe, list[n].faceData)
       IN  IF DistanceLess(distance, prev.distance)
             THEN [match |-> n, distance |-> distance]
             ELSE prev

BestMatch(probe, list) == MatchUpTo(probe, list, Len(list))

\* p1 / q1 < p2 / q2 for naturals with q1, q2 > 0, by whole parts and
\* remainders, so that no product is formed
RECURSIVE FracLess(_, _, _, _)
FracLess(p1, q1, p2, q2) ==
  IF p1 \div q1 # p2 \div q2 THEN p1 \div q1 < p2 \div q2
  ELSE IF p2 % q2 = 0 THEN FALSE
  ELSE IF p1 % q1 = 0 THEN TRUE
  ELSE FracLess(q2, p2 % q2, q1, p1 % q1)

\* ((1 - d) * 100).toFixed(1) for a distance d below 0.6: the number of
\* tenths t nearest to 1000 * (1 - d), the larger one of two
ToFixed1(d) ==
  LET n == d.sqrtOf[1]
      m == d.sqrtOf[2]
      t == CHOOSE u \in 400..1000 :
             /\ \/ 2 * (1000 - u) - 1 < 0
                \/ FracLess((2 * (1000 - u) - 1) * (2 * (1000 - u) - 1),
                            4000000, n, m)
             /\ ~FracLess((2 * (1000 - u) + 1) * (2 * (1000 - u) + 1),
                          4000000, n, m)
  IN  NumericText(Rat(t, 10))

\* the detection loop's callback of the check-in view
DetectCheckIn ==
  /\ checkInDetections' \in {<<>>} \cup { <<v>> : v \in ProbeInputs }
  /\ checkInDetections' # checkInDetections
  /\ UNCHANGED <<serverVars, cameraVars, await, inbox, registerDetections,
                 capturedSamples, studentDescriptors, pendingLoad, sent, alert>>

\* the body of the check-in request for the matched student
VerifyBody(student, distance) ==
  [ studentId |-> student.id, name |-> student.name,
    course |-> student.course, confidence |-> ToFixed1(distance) ]

\* click on startVerify, up to the fetch reaching the server
VerifyClick ==
  IF Len(checkInDetections) = 0
    THEN /\ alert' = "No Face Detected"
         /\ UNCHANGED <<serverVars, cameraVars, await, inbox, registerDetections,
                        checkInDetections, capturedSamples,
                        studentDescriptors, pendingLoad, sent>>
  ELSE IF Len(studentDescriptors) = 0
    THEN /\ alert' = "No Students"
         /\ UNCHANGED <<serverVars, cameraVars, await, inbox, registerDetections,
                        checkInDetections, capturedSamples,
                        studentDescriptors, pendingLoad, sent>>
  ELSE LET best == BestMatch(checkInDetections[1], studentDescriptors) IN
       IF best.match = 0
         THEN /\ alert' = "Not Recognized"
              /\ UNCHANGED <<serverVars, cameraVars, await, inbox, registerDetections,
                             checkInDetections, capturedSamples,
                             studentDescriptors, pendingLoad, sent>>
       ELSE LET body == VerifyBody(studentDescriptors[best.match],
                                   best.distance)
            IN  /\ \E p \in Procs :
                     /\ CheckinRecv(p, body)
                     /\ Fetched(p, "checkin")
                /\ sent' = [op |-> "checkin", body |-> body]
                /\ UNCHANGED <<cameraVars, registerDetections, checkInDetections,
                               capturedSamples, studentDescriptors,
                               pendingLoad, alert>>

\* the code after await fetch(.../attendance/checkin)
CheckinAnswered ==
  \E a \in inbox :
    /\ a.kind = "checkin"
    /\ inbox' = inbox \ {a}
    /\ alert' = IF a.success THEN "Success" ELSE "Info"
    /\ UNCHANGED <<serverVars, cameraVars, await, registerDetections, checkInDetections,
                   capturedSamples, studentDescriptors, pendingLoad, sent>>

(***************************************************************************)
(* The browser: cameras, detection loops and navigation.                   *)
(***************************************************************************)
\* the views with a camera: home (check-in) and register
Views == {"home", "register"}

\* the pages data-view names; one page without a camera stands for the rest
Pages == Views \cup {"students"}

\* null, for a stream or an interval; otherwise these are <<view, n>>, the
\* one the n-th init call created for the video of the view
NoStream == <<>>

\* stream.getTracks().forEach(t => t.stop()), for a stream or null
TracksStopped(live, stream) == live \ {stream}

\* if (interval) clearInterval(interval)
Cleared(running, interval) == running \ {interval}

\* the page as the script leaves it at load, loadModels() awaiting
CameraInit ==
  /\ activeView = "home"
  /\ modelsLoaded = FALSE
  /\ loadingModels = TRUE
  /\ viewStream = [v \in Views |-> NoStream]
  /\ viewInterval = [v \in Views |-> NoStream]
  /\ srcObject = [v \in Views |-> NoStream]
  /\ stopShown = [v \in Views |-> FALSE]
  /\ stopOnclick = [v \in Views |-> FALSE]
  /\ liveStreams = {}
  /\ runningIntervals = {}
  /\ initCalls = {}
  /\ timers = [v \in Views |-> 0]
  /\ started = 0

\* loadModels() after the nets are loaded: setTimeout(initCheckInCamera, 500)
ModelsLoaded ==
  /\ loadingModels
  /\ timers["home"] < MaxTimers
  /\ loadingModels' = FALSE
  /\ modelsLoaded' = TRUE
  /\ timers' = [timers EXCEPT !["home"] = @ + 1]
  /\ UNCHANGED <<serverVars, await, inbox, registerDetections,
                 checkInDetections, capturedSamples, studentDescriptors,
                 pendingLoad, sent, alert, activeView, viewStream,
                 viewInterval, srcObject, stopShown, stopOnclick, liveStreams,
                 runningIntervals, initCalls, started>>

\* loadModels() when loading a net throws
ModelsFailed ==
  /\ loadingModels
  /\ loadingModels' = FALSE
  /\ alert' = "Error"
  /\ UNCHANGED <<serverVars, await, inbox, registerDetections,
                 checkInDetections, capturedSamples, studentDescriptors,
                 pendingLoad, sent, activeView, modelsLoaded, viewStream,
                 viewInterval, srcObject, stopShown, stopOnclick, liveStreams,
                 runningIntervals, initCalls, timers, started>>

\* click on the nav item of a page
NavClick(page) ==
  /\ page \in Views => timers[page] < MaxTimers
  /\ activeView' = page
  /\ liveStreams' = liveStreams \ { viewStream[v] : v \in Views }
  /\ runningIntervals' =
       runningIntervals
         \ { viewInterval[v] : v \in { w \in Views : viewStream[w] # NoStream } }
  /\ srcObject' = [v \in Views |->
                     IF viewStream[v] # NoStream THEN NoStream
                     ELSE srcObject[v]]
  /\ stopShown' = [v \in Views |-> stopShown[v] /\ viewStream[v] = NoStream]
  /\ viewStream' = [v \in Views |-> NoStream]
  /\ timers' = IF page \in Views THEN [timers EXCEPT ![page] = @ + 1]
               ELSE timers
  /\ UNCHANGED <<serverVars, await, inbox, registerDetections,
                 checkInDetections, capturedSamples, studentDescriptors,
                 pendingLoad, sent, alert, modelsLoaded, loadingModels,
                 viewInterval, stopOnclick, initCalls, started>>

\* a setTimeout callback runs initCheckInCamera() or initRegisterCamera(),
\* up to the await inside startCamera, or to the end when startCamera
\* returns null at once
InitCamera(v) ==
  /\ timers[v] > 0
  /\ timers' = [timers EXCEPT ![v] = @ - 1]
  /\ liveStreams' = TracksStopped(liveStreams, viewStream[v])
  /\ runningIntervals' =
       IF viewStream[v] # NoStream
         THEN Cleared(runningIntervals, viewInterval[v])
         ELSE runningIntervals
  /\ stopShown' = [stopShown EXCEPT ![v] = @ /\ viewStream[v] = NoStream]
  /\ srcObject' = IF viewStream[v] # NoStream
                    THEN [srcObject EXCEPT ![v] = NoStream]
                    ELSE srcObject
  /\ IF ~modelsLoaded
       THEN /\ alert' = "Please wait"
            /\ viewStream' = [viewStream EXCEPT ![v] = NoStream]
            /\ stopOnclick' = [stopOnclick EXCEPT ![v] = TRUE]
            /\ UNCHANGED <<initCalls, started>>
       ELSE /\ started < MaxInits
            /\ started' = started + 1
            /\ initCalls' = initCalls \cup
                 { [id |-> <<v, started + 1>>, at |-> "getUserMedia"] }
            /\ UNCHANGED <<alert, viewStream, stopOnclick>>
  /\ UNCHANGED <<serverVars, await, inbox, registerDetections,
                 checkInDetections, capturedSamples, studentDescriptors,
                 pendingLoad, sent, activeView, modelsLoaded, loadingModels,
                 viewInterval>>

\* getUserMedia resolves for an init call: video.srcObject = stream, and
\* the call awaits loadedmetadata
GotUserMedia(c) ==
  /\ c \in initCalls
  /\ c.at = "getUserMedia"
  /\ liveStreams' = liveStreams \cup {c.id}
  /\ srcObject' = [srcObject EXCEPT ![c.id[1]] = c.id]
  /\ initCalls' = (initCalls \ {c}) \cup {[c EXCEPT !.at = "metadata"]}
  /\ UNCHANGED <<serverVars, await, inbox, registerDetections,
                 checkInDetections, capturedSamples, studentDescriptors,
                 pendingLoad, sent, alert, activeView, modelsLoaded,
                 loadingModels, viewStream, viewInterval, stopShown,
                 stopOnclick, runningIntervals, timers, started>>

\* getUserMedia rejects: startCamera returns null and the init call ends
UserMediaDenied(c) ==
  /\ c \in initCalls
  /\ c.at = "getUserMedia"
  /\ alert' = "Camera Error"
  /\ viewStream' = [viewStream EXCEPT ![c.id[1]] = NoStream]
  /\ stopOnclick' = [stopOnclick EXCEPT ![c.id[1]] = TRUE]
  /\ initCalls' = initCalls \ {c}
  /\ UNCHANGED <<serverVars, await, inbox, registerDetections,
                 checkInDetections, capturedSamples, studentDescriptors,
                 pendingLoad, sent, activeView, modelsLoaded, loadingModels,
                 viewInterval, srcObject, stopShown, liveStreams,
                 runningIntervals, timers, started>>

\* loadedmetadata of the video whose srcObject is the call's stream: the
\* call that set video.onloadedmetadata last resumes, startCamera returns
\* the stream, and the init call runs to its end
LoadedMetadata(c) ==
  /\ c \in initCalls
  /\ c.at = "metadata"
  /\ srcObject[c.id[1]] = c.id
  /\ stopShown' = [stopShown EXCEPT ![c.id[1]] = TRUE]
  /\ viewStream' = [viewStream EXCEPT ![c.id[1]] = c.id]
  /\ viewInterval' = [viewInterval EXCEPT ![c.id[1]] = c.id]
  /\ runningIntervals' = runningIntervals \cup {c.id}
  /\ stopOnclick' = [stopOnclick EXCEPT ![c.id[1]] = TRUE]
  /\ initCalls' = initCalls \ {c}
  /\ UNCHANGED <<serverVars, await, inbox, registerDetections,
                 checkInDetections, capturedSamples, studentDescriptors,
                 pendingLoad, sent, alert, activeView, modelsLoaded,
                 loadingModels, srcObject, liveStreams, timers, started>>

\* click on stopCamera or stopCameraReg
StopClick(v) ==
  /\ stopShown[v]
  /\ stopOnclick[v]
  /\ liveStreams' = TracksStopped(liveStreams, viewStream[v])
  /\ stopShown' = [stopShown EXCEPT ![v] = FALSE]
  /\ srcObject' = [srcObject EXCEPT ![v] = NoStream]
  /\ runningIntervals' = Cleared(runningIntervals, viewInterval[v])
  /\ viewStream' = [viewStream EXCEPT ![v] = NoStream]
  /\ UNCHANGED <<serverVars, await, inbox, registerDetections,
                 checkInDetections, capturedSamples, studentDescriptors,
                 pendingLoad, sent, alert, activeView, modelsLoaded,
                 loadingModels, viewInterval, stopOnclick, initCalls, timers,
                 started>>

\* the callback of setInterval in startDetectionLoop finds video.srcObject
\* null and clears its own interval
IntervalEnds(i) ==
  /\ i \in runningIntervals
  /\ srcObject[i[1]] = NoStream
  /\ runningIntervals' = runningIntervals \ {i}
  /\ UNCHANGED <<serverVars, await, inbox, registerDetections,
                 checkInDetections, capturedSamples, studentDescriptors,
                 pendingLoad, sent, alert, activeView, modelsLoaded,
                 loadingModels, viewStream, viewInterval, srcObject,
                 stopShown, stopOnclick, liveStreams, initCalls, timers,
                 started>>

\* the callback of setInterval with a video that has a srcObject: the
\* detections go to onDetection
IntervalDetects(i) ==
  /\ i \in runningIntervals
  /\ srcObject[i[1]] # NoStream
  /\ IF i[1] = "home" THEN DetectCheckIn ELSE DetectRegister

(***************************************************************************)
(* Specifications.                                                         *)
(***************************************************************************)
Init ==
  /\ students = <<>>
  /\ attendance = <<>>
  /\ now = 0
  /\ pc = [p \in Procs |-> "idle"]
  /\ doc = [p \in Procs |-> NoDoc]
  /\ resp = NoResp
  /\ await = [p \in Procs |-> "none"]
  /\ inbox = {}
  /\ registerDetections = <<>>
  /\ checkInDetections = <<>>
  /\ capturedSamples = <<>>
  /\ studentDescriptors = <<>>
  /\ pendingLoad = TRUE
  /\ sent = NoRequest
  /\ alert = ""
  /\ CameraInit

\* the student routes, requests interleaving
StudentsNext ==
  \/ \E p \in Procs : RegisterRequest(p)
  \/ \E p \in Procs : RegisterSave(p)
  \/ UpdateRequest
  \/ DeleteRequest

SpecStudents == Init /\ [][StudentsNext]_vars

\* the check-in route, requests interleaving
CheckinNext ==
  \/ \E p \in Procs : CheckinRequest(p)
  \/ \E p \in Procs : CheckinSave(p)
  \/ Tick

SpecCheckin == Init /\ [][CheckinNext]_vars

\* the check-in route, one request handled after another
Quiet == \A p \in Procs : pc[p] = "idle"

SeqNext ==
  \/ \E p \in Procs : Quiet /\ CheckinRequest(p)
  \/ \E p \in Procs : CheckinSave(p)
  \/ Tick

SpecSeq == Init /\ [][SeqNext]_vars

\* sequences of at most n members of S
SeqsUpTo(S, n) == UNION { [1..k -> S] : k \in 0..n }

\* the browser registering a student, from every state of the captured
\* samples that captures lead to
InitAverage ==
  /\ students = <<>>
  /\ attendance = <<>>
  /\ now = 0
  /\ pc = [p \in Procs |-> "idle"]
  /\ doc = [p \in Procs |-> NoDoc]
  /\ resp = NoResp
  /\ await = [p \in Procs |-> "none"]
  /\ inbox = {}
  /\ registerDetections = <<>>
  /\ checkInDetections = <<>>
  /\ capturedSamples \in SeqsUpTo(SampleInputs, MaxSamples)
  /\ studentDescriptors = <<>>
  /\ pendingLoad = TRUE
  /\ sent = NoRequest
  /\ alert = ""
  /\ CameraInit

AverageNext ==
  \/ RegisterClick
  \/ \E p \in Procs : RegisterSave(p)
  \/ RegisterAnswered

SpecAverage == InitAverage /\ [][AverageNext]_vars

\* the k-th student enrolled with descriptor v
Enrolled(k, v) ==
  [ studentId |-> [i \in 1..k |-> "A"], name |-> <<"n">>, course |-> <<"c">>,
    faceDescriptor |-> v, isActive |-> TRUE, updatedAt |-> 0 ]

\* the browser checking in, from every state in which up to MaxEnrolled
\* students are registered and their descriptors are loaded
InitMatch ==
  /\ \E vs \in SeqsUpTo(EnrolledVectors, MaxEnrolled) :
       /\ students = [k \in 1..Len(vs) |-> Enrolled(k, vs[k])]
       /\ studentDescriptors =
            [k \in 1..Len(vs) |-> DescriptorEntry(Enrolled(k, vs[k]))]
  /\ attendance = <<>>
  /\ now = 0
  /\ pc = [p \in Procs |-> "idle"]
  /\ doc = [p \in Procs |-> NoDoc]
  /\ resp = NoResp
  /\ await = [p \in Procs |-> "none"]
  /\ inbox = {}
  /\ registerDetections = <<>>
  /\ checkInDetections = <<>>
  /\ capturedSamples = <<>>
  /\ pendingLoad = FALSE
  /\ sent = NoRequest
  /\ alert = ""
  /\ CameraInit

MatchNext ==
  \/ DetectCheckIn
  \/ /\ Len(attendance) + Cardinality({p \in Procs : pc[p] = "chkSave"})
          < MaxVerified
     /\ VerifyClick
  \/ \E p \in Procs : CheckinSave(p)
  \/ CheckinAnswered

SpecMatch == InitMatch /\ [][MatchNext]_vars

\* no fetch of the browser is awaited or unanswered
BrowserQuiet == inbox = {} /\ \A p \in Procs : await[p] = "none"

\* one browser session, the user waiting for the answer to a click before
\* the next: register with the captured samples, then check in
ScenarioNext ==
  \/ BrowserQuiet /\ RegisterClick
  \/ \E p \in Procs : RegisterSave(p)
  \/ RegisterAnswered
  \/ LoadDescriptors
  \/ DescriptorsLoaded
  \/ BrowserQuiet /\ DetectCheckIn
  \/ BrowserQuiet /\ VerifyClick
  \/ \E p \in Procs : CheckinSave(p)
  \/ CheckinAnswered

\* the register view after exactly the 3 samples were captured
InitScenario ==
  /\ students = <<>>
  /\ attendance = <<>>
  /\ now = 0
  /\ pc = [p \in Procs |-> "idle"]
  /\ doc = [p \in Procs |-> NoDoc]
  /\ resp = NoResp
  /\ await = [p \in Procs |-> "none"]
  /\ inbox = {}
  /\ registerDetections = <<>>
  /\ checkInDetections = <<>>
  /\ capturedSamples \in [1..MinSamples -> SampleInputs]
  /\ studentDescriptors = <<>>
  /\ pendingLoad = TRUE
  /\ sent = NoRequest
  /\ alert = ""
  /\ CameraInit

SpecScenario == InitScenario /\ [][ScenarioNext]_vars

\* the calls that may be awaiting inside startCamera
CallInputs ==
  { [id |-> <<v, n>>, at |-> a] :
      v \in Views, n \in 1..MaxInits, a \in {"getUserMedia", "metadata"} }

\* the page with its cameras: model loading, navigation, the init calls
\* with their awaits, the stop buttons and the detection intervals
CameraNext ==
  \/ ModelsLoaded
  \/ ModelsFailed
  \/ \E page \in Pages : NavClick(page)
  \/ \E v \in Views : InitCamera(v)
  \/ \E c \in CallInputs : GotUserMedia(c)
  \/ \E c \in CallInputs : UserMediaDenied(c)
  \/ \E c \in CallInputs : LoadedMetadata(c)
  \/ \E v \in Views : StopClick(v)
  \/ \E i \in Views \X (1..MaxInits) : IntervalEnds(i)
  \/ \E i \in Views \X (1..MaxInits) : IntervalDetects(i)

SpecCamera == Init /\ [][CameraNext]_vars

\* the studentId the requests of the whole API are about
LedgerKey == <<"a">>

\* the studentIds students are registered and deleted with
LedgerKeys == {LedgerKey, <<"b">>}

\* the bodies PUT /api/students/:studentId is sent for that student
LedgerUpdates ==
  { [EmptyUpdate EXCEPT
       !.name = <<"m">>,
       !.faceDescriptor =
         ArrayOf(Vec(DescriptorLength, Rat(3, 10), Rat(0, 1)))] }

\* register, update, delete and check-in requests for one studentId, in
\* any order and interleaving, while the clock runs
LedgerNext ==
  \/ \E p \in Procs, id \in LedgerKeys :
       /\ RegisterRecv(p, GoodRegister(id))
       /\ UNCHANGED <<await, inbox, clientVars>>
  \/ \E p \in Procs : RegisterSave(p)
  \/ \E body \in LedgerUpdates :
       /\ UpdateStudent(LedgerKey, body)
       /\ UNCHANGED <<await, inbox, clientVars>>
  \/ \E id \in LedgerKeys :
       /\ DeleteStudent(id)
       /\ UNCHANGED <<await, inbox, clientVars>>
  \/ \E p \in Procs :
       /\ Len(attendance) < MaxAttendance
       /\ CheckinRecv(p, GoodCheckin(LedgerKey))
       /\ UNCHANGED <<await, inbox, clientVars>>
  \/ \E p \in Procs : CheckinSave(p)
  \/ Tick

SpecLedger == Init /\ [][LedgerNext]_vars


(***************************************************************************)
(* The Attendance Ledger.                                                  *)
(***************************************************************************)
\* two keys name the same identity when they differ in letter case only
SameIdentity(k1, k2) == ToUpperCase(k1) = ToUpperCase(k2)

\* the records of a ledger for an identity on a date
RecordsIn(ledger, id, date) ==
  { i \in 1..Len(ledger) :
      SameIdentity(ledger[i].studentId, id) /\ ledger[i].date = date }

AtMostOnePerDay(ledger) ==
  \A i, j \in 1..Len(ledger) :
    (SameIdentity(ledger[i].studentId, ledger[j].studentId)
       /\ ledger[i].date = ledger[j].date) => i = j

\* a check-in answered before any save (400 or 409)
CheckinAnsweredAtOnce ==
  resp' # resp /\ resp'.op = "checkin" /\ pc' = pc

\* handler p proceeds from findOne to save
CheckinAdmitted(p) == pc[p] = "idle" /\ pc'[p] = "chkSave"

\* handler p ends its save and answers
CheckinSaved(p) == pc[p] = "chkSave" /\ pc'[p] = "idle"

\* C1: with check-in requests handled one after another, a request for an
\* (identity, date) that has a record is answered 409 with that record and
\* leaves the ledger as it was, whatever the letter case of its key; 409 is
\* answered in no other case; a record is persisted, and 201 answered, only
\* when the pair had none, and then exactly that record is appended; so the
\* ledger never holds two records of one pair.
C1_Idempotence ==
  [][ /\ AtMostOnePerDay(attendance')
      /\ CheckinAnsweredAtOnce =>
           /\ attendance' = attendance
           /\ resp'.status \in {400, 409}
           /\ resp'.status = 409 =>
                LET S == RecordsIn(attendance, resp'.key, ToLocaleDateString(now))
                IN  S # {} /\ resp'.data = <<attendance[First(S)]>>
      /\ \A p \in Procs :
           CheckinAdmitted(p) =>
             /\ RecordsIn(attendance, doc'[p].studentId, doc'[p].date) = {}
             /\ doc'[p].date = ToLocaleDateString(now)
             /\ attendance' = attendance
      /\ \A p \in Procs :
           CheckinSaved(p) =>
             /\ RecordsIn(attendance, doc[p].studentId, doc[p].date) = {}
             /\ resp'.status \in {201, 500}
             /\ resp'.status = 201 =>
                  attendance' = Append(attendance, doc[p]) /\ resp'.data = <<doc[p]>>
             /\ resp'.status = 500 => attendance' = attendance
    ]_vars

\* a later request in the other letter case was refused with the record
\* the first one persisted
C1_Witness ==
  /\ resp.op = "checkin" /\ resp.status = 409 /\ resp.key = <<"a">>
  /\ resp.data = <<attendance[1]>>
  /\ attendance[1].studentId = <<"A">>
  /\ Cardinality(RecordsIn(attendance, <<"a">>, attendance[1].date)) = 1

\* C2: in every reachable state the ledger holds at most one record per
\* (identity, date), whatever the interleaving of check-in requests.
C2_AtMostOneRecord == AtMostOnePerDay(attendance)

\* C3: when a check-in reaches its save although the pair has a record by
\* then (the race), the insert is refused and the request is answered 409.
C3_RaceRefused ==
  [][ \A p \in Procs :
        (CheckinSaved(p)
           /\ RecordsIn(attendance, doc[p].studentId, doc[p].date) # {})
          => resp'.status = 409 /\ attendance' = attendance
    ]_vars


(***************************************************************************)
(* The Student Directory.                                                  *)
(***************************************************************************)
\* the students of a directory that hold a key, letter case ignored
HoldersIn(dir, key) ==
  { i \in 1..Len(dir) : SameIdentity(dir[i].studentId, key) }

\* a register request answered before any save (400 or 409)
RegisterAnsweredAtOnce ==
  resp' # resp /\ resp'.op = "register" /\ pc' = pc

\* handler p proceeds from findOne to save
RegisterAdmitted(p) == pc[p] = "idle" /\ pc'[p] = "regSave"

\* C4: once a student holds a key, every register request that passes the
\* body validation and whose key equals it up to letter case is answered
\* 409 and leaves the directory as it was; no request is admitted to save
\* while its key is held; and a stored student keeps its key for ever.
C4_RegistrationUnique ==
  [][ /\ (RegisterAnsweredAtOnce /\ resp'.status # 400
            /\ HoldersIn(students, resp'.key) # {})
           => resp'.status = 409 /\ students' = students
      /\ (resp' # resp /\ resp'.op = "register" /\ resp'.status = 409)
           => /\ students' = students
              /\ HoldersIn(students, Trim(resp'.key)) # {}
      /\ \A p \in Procs :
           RegisterAdmitted(p) => HoldersIn(students, doc'[p].studentId) = {}
      /\ Len(students') >= Len(students)
      /\ \A i \in 1..Len(students) :
           students'[i].studentId = students[i].studentId
    ]_vars

\* the second registration of a key, in the other letter case, was refused
C4_Witness ==
  /\ resp.op = "register" /\ resp.status = 409 /\ resp.key = <<"a">>
  /\ Len(students) = 1
  /\ students[1].studentId = <<"A">>

\* C5: no two stored students hold the same case-normalized key, whatever
\* the interleaving of register, update and soft-delete requests.
C5_UniqueKeys ==
  \A i, j \in 1..Len(students) :
    SameIdentity(students[i].studentId, students[j].studentId) => i = j

\* two registrations of one key raced past findOne and the index refused
\* the second save
C5_Witness ==
  /\ resp.op = "register" /\ resp.message = "duplicate key"
  /\ HoldersIn(students, resp.key) # {}

\* a body lacks a field
MissingField(body) ==
  \/ body.studentId = <<>>
  \/ body.name = <<>>
  \/ body.course = <<>>
  \/ body.faceDescriptor.kind = "undefined"

\* a descriptor that is not an array of exactly 128 entries
WrongDescriptor(fd) ==
  fd.kind # "array" \/ Len(fd.v) # DescriptorLength

\* C6: a register request with a missing field or a descriptor that is not
\* an array of exactly 128 entries is answered 400 and is not admitted to
\* save; an update carrying an array of another length is answered 400 and
\* changes nothing; every stored descriptor has 128 entries.
C6_DescriptorValidated ==
  [][ /\ \A i \in 1..Len(students') :
           Len(students'[i].faceDescriptor) = DescriptorLength
      /\ \A p \in Procs, body \in RegisterBodies :
           ((MissingField(body) \/ WrongDescriptor(body.faceDescriptor))
              /\ RegisterRecv(p, body))
             => resp'.status = 400 /\ students' = students /\ pc' = pc
      /\ \A id \in ParamInputs, body \in UpdateBodies :
           (body.faceDescriptor.kind = "array"
              /\ Len(body.faceDescriptor.v) # DescriptorLength
              /\ UpdateStudent(id, body))
             => resp'.status = 400 /\ students' = students
    ]_vars

\* a student is stored, and an update of its descriptor with a vector of
\* another length was refused
C6_Witness ==
  /\ resp.op = "update" /\ resp.status = 400
  /\ HoldersIn(students, resp.key) # {}
  /\ \A i \in 1..Len(students) :
       Len(students[i].faceDescriptor) = DescriptorLength

\* C7: a register request that passes the validation is answered 409
\* exactly when an active student holds its key.
C7_ConflictIffActive ==
  [][ \A p \in Procs, body \in RegisterBodies :
        (~MissingField(body) /\ ~WrongDescriptor(body.faceDescriptor)
           /\ RegisterRecv(p, body))
          => ((resp'.status = 409 /\ pc' = pc)
                <=> \E i \in HoldersIn(students, Trim(body.studentId)) :
                      students[i].isActive)
    ]_vars


(***************************************************************************)
(* The Descriptor Aggregator.                                              *)
(***************************************************************************)
\* the sum of the i-th components of the samples, from the first on
RECURSIVE Total(_, _)
Total(samples, i) ==
  IF samples = <<>> THEN Rat(0, 1)
  ELSE Plus(Head(samples)[i], Total(Tail(samples), i))

\* all samples have the length of the first
EqualLengths(samples) ==
  \A j \in 1..Len(samples) : Len(samples[j]) = Len(samples[1])

\* a click on registerStudent that sends the request
SendsRegistration == RegisterClick /\ alert' = alert

\* C9: when the browser sends a registration computed from K >= 3 samples
\* of one length L, the descriptor of the request has L components, the
\* i-th one being the mean of the samples' i-th components, and the
\* captured samples are left as they were.
C9_MeanOfSamples ==
  [][ (SendsRegistration /\ Len(capturedSamples) >= MinSamples
         /\ EqualLengths(capturedSamples))
        => LET K == Len(capturedSamples)
               L == Len(capturedSamples[1])
               d == sent'.body.faceDescriptor
           IN  /\ sent'.op = "register"
               /\ d.kind = "array"
               /\ Len(d.v) = L
               /\ \A i \in 1..L :
                    Times(d.v[i], Rat(K, 1)) = Total(capturedSamples, i)
               /\ capturedSamples' = capturedSamples
    ]_vars

\* a registration was sent from four samples whose first components
\* 3/10, 3/10, 0, 0 average to 3/20
C9_Witness ==
  /\ sent.op = "register"
  /\ Len(capturedSamples) = 4
  /\ EqualLengths(capturedSamples)
  /\ Len(sent.body.faceDescriptor.v) = DescriptorLength
  /\ sent.body.faceDescriptor.v[1] = Rat(3, 20)
  /\ Total(capturedSamples, 1) = Rat(3, 5)

\* C10: while fewer than 3 samples are captured, or the captured samples
\* differ in length, a click on registerStudent ends in a validation error
\* (a notification of the page, or a 400 of the server) and no student is
\* created.
C10_AggregatorValidation ==
  [][ (Len(capturedSamples) < MinSamples \/ ~EqualLengths(capturedSamples))
        => /\ students' = students
           /\ RegisterClick =>
                \/ alert' \in {"Missing Fields", "Missing Face Samples"}
                \/ resp'.status = 400 /\ pc' = pc
    ]_vars

(***************************************************************************)
(* The matcher.                                                            *)
(***************************************************************************)
\* every descriptor the matcher reads has the fixed length
MatcherInputsValid ==
  /\ Len(checkInDetections[1]) = DescriptorLength
  /\ \A k \in 1..Len(studentDescriptors) :
       Len(studentDescriptors[k].faceData) = DescriptorLength

\* a step of the check-in click that got past the face check
VerifyStep ==
  /\ checkInDetections # <<>>
  /\ checkInDetections' = checkInDetections
  /\ attendance' = attendance
  /\ inbox \subseteq inbox'
  /\ VerifyClick

\* the click sends no check-in request
SendsNothing ==
  /\ alert' \in {"No Students", "Not Recognized"}
  /\ UNCHANGED <<serverVars, cameraVars, await, inbox, sent>>

\* the click sends a check-in request for the k-th student loaded
SendsCheckinFor(k) ==
  /\ sent'.op = "checkin"
  /\ sent'.body.studentId = studentDescriptors[k].id
  /\ sent'.body.name = studentDescriptors[k].name
  /\ sent'.body.course = studentDescriptors[k].course
  /\ \/ \E p \in Procs :
          /\ pc[p] = "idle" /\ pc'[p] = "chkSave"
          /\ doc'[p].studentId = studentDescriptors[k].id
          /\ await'[p] = "checkin"
     \/ /\ resp'.op = "checkin"
        /\ resp'.key = studentDescriptors[k].id
        /\ resp'.status = 409
        /\ pc' = pc
  /\ alert' = alert

\* C8: on descriptors of the fixed length, the check-in click sends a
\* check-in exactly when the smallest distance from the probe to a loaded
\* student is strictly below 0.6, and then for the first student, in the
\* order of the loaded list, that is at the smallest distance; otherwise it
\* sends no request at all.
C8_MatcherResult ==
  [][ (VerifyStep /\ MatcherInputsValid) =>
        LET probe == checkInDetections[1]
            n == Len(studentDescriptors)
            d == [k \in 1..n |->
                    euclideanDistance(probe, studentDescriptors[k].faceData)]
            Nearest == { k \in 1..n :
                           \A j \in 1..n : ~DistanceLess(d[j], d[k]) }
        IN  IF \E k \in 1..n : DistanceLess(d[k], Threshold)
              THEN SendsCheckinFor(First(Nearest))
              ELSE SendsNothing
    ]_vars

\* two students are at the same smallest distance below 0.6 and the
\* check-in was sent for the first of them
C8_Witness ==
  /\ Len(studentDescriptors) = 2
  /\ checkInDetections # <<>>
  /\ LET probe == checkInDetections[1]
         d1 == euclideanDistance(probe, studentDescriptors[1].faceData)
         d2 == euclideanDistance(probe, studentDescriptors[2].faceData)
     IN  /\ d1 = d2
         /\ DistanceLess(d1, Threshold)
         /\ studentDescriptors[1].faceData # studentDescriptors[2].faceData
  /\ sent # NoRequest
  /\ sent.op = "checkin"
  /\ sent.body.studentId = studentDescriptors[1].id
  /\ Len(attendance) = 1
  /\ attendance[1].studentId = studentDescriptors[1].id

\* the probe differs in length from a loaded descriptor it is compared with
ProbeLengthMismatch ==
  \E k \in 1..Len(studentDescriptors) :
    Len(checkInDetections[1]) # Len(studentDescriptors[k].faceData)

\* C11: when the probe's length differs from the length of a loaded
\* descriptor it is compared with, the check-in click ends in an error
\* notification: no student is matched and no check-in request is sent.
C11_MatcherValidation ==
  [][ (VerifyStep /\ ProbeLengthMismatch) =>
        /\ alert' \notin {"", "Success", "Info"}
        /\ alert' # "No Students"
        /\ UNCHANGED <<serverVars, cameraVars, await, inbox, sent>>
    ]_vars

(***************************************************************************)
(* The ledger.                                                             *)
(***************************************************************************)
\* every record of the ledger is still there, at its place and unchanged
LedgerKept ==
  /\ Len(attendance') >= Len(attendance)
  /\ \A i \in 1..Len(attendance) : attendance'[i] = attendance[i]

\* C12: once an attendance record exists, every register, update, delete
\* and check-in request leaves it in the ledger with all its fields
\* unchanged, also when the request updates or soft-deletes the student the
\* record refers to.
C12_PresentAbsorbing == [][LedgerKept]_vars

\* a record of the first day is in the ledger after its student was
\* updated and soft-deleted and checked in again on a later day
C12_Witness ==
  /\ Len(attendance) = 2
  /\ Len(students) = 1
  /\ attendance[1].studentId = students[1].studentId
  /\ attendance[1].date = 0
  /\ attendance[2].date = 1
  /\ attendance[1].name # students[1].name
  /\ ~students[1].isActive

(***************************************************************************)
(* The scenario from registration to the repeated check-in.                *)
(***************************************************************************)
\* handler p stores the student of a registration the browser sent from
\* the captured samples
StoresRegistered(p) ==
  /\ pc[p] = "regSave"
  /\ Len(students') = Len(students) + 1
  /\ Len(capturedSamples) = MinSamples
  /\ EqualLengths(capturedSamples)

\* the stored descriptor is the component-wise mean of the samples
StoredIsMean ==
  LET st == students'[Len(students')]
      L == Len(capturedSamples[1])
  IN  /\ Len(st.faceDescriptor) = L
      /\ \A i \in 1..L :
           Times(st.faceDescriptor[i], Rat(MinSamples, 1))
             = Total(capturedSamples, i)
      /\ resp'.status = 201

\* the loaded student whose descriptor the probe equals
ProbeTwins ==
  { k \in 1..Len(studentDescriptors) :
      studentDescriptors[k].faceData = checkInDetections[1] }

\* the records of the ledger for a studentId on the server's day
TodayOf(ledger, id) ==
  { i \in 1..Len(ledger) :
      ledger[i].studentId = id /\ ledger[i].date = ToLocaleDateString(now) }

\* C13: the student stored for a registration from 3 samples has their
\* component-wise mean as descriptor; with the descriptors loaded, a
\* check-in click with a probe equal to the descriptor of the registered
\* student sends that student with confidence 100.0; the first such
\* check-in of the day is admitted and answered 201 with the record
\* appended; one on a day with a record is answered 409 and the ledger
\* keeps exactly one record for the student and the day.
C13_EndToEnd ==
  [][ /\ \A p \in Procs : StoresRegistered(p) => StoredIsMean
      /\ (checkInDetections # <<>> /\ ProbeTwins # {} /\ VerifyStep) =>
           LET twin == studentDescriptors[First(ProbeTwins)]
           IN  /\ sent'.op = "checkin"
               /\ sent'.body.studentId = twin.id
               /\ sent'.body.confidence = NumericText(Rat(100, 1))
               /\ IF TodayOf(attendance, twin.id) = {}
                    THEN \E p \in Procs :
                           /\ pc'[p] = "chkSave"
                           /\ doc'[p].studentId = twin.id
                    ELSE /\ resp'.status = 409
                         /\ pc' = pc
                         /\ attendance' = attendance
                         /\ Cardinality(TodayOf(attendance', twin.id)) = 1
      /\ \A p \in Procs : CheckinSaved(p) =>
           /\ resp'.status = 201
           /\ attendance' = Append(attendance, doc[p])
           /\ doc[p].studentId = sent.body.studentId
           /\ doc[p].confidence = [kind |-> "number", v |-> sent.body.confidence.v]
    ]_vars

\* the student was registered with the mean 3/10 of three samples, the
\* check-in was repeated and answered 409, and the ledger holds one record
C13_Witness ==
  /\ Len(students) = 1
  /\ students[1].faceDescriptor[1] = Rat(3, 10)
  /\ studentDescriptors # <<>>
  /\ checkInDetections = <<students[1].faceDescriptor>>
  /\ Len(attendance) = 1
  /\ attendance[1].studentId = students[1].studentId
  /\ sent.op = "checkin"
  /\ resp.op = "checkin"
  /\ resp.status = 409
  /\ alert = "Info"

(***************************************************************************)
(* Soft delete.                                                            *)
(***************************************************************************)
\* a DELETE request for id is handled
DeleteStep(id) == DeleteStudent(id) /\ UNCHANGED <<await, inbox, clientVars>>

\* the students other than those holding the key, and the ledger, are as
\* they were, and no document is added or removed
DeleteFrame(id) ==
  /\ Len(students') = Len(students)
  /\ \A i \in (1..Len(students)) \ HoldersIn(students, id) :
       students'[i] = students[i]
  /\ attendance' = attendance

\* the fields of a student document other than the active flag and the
\* time of the last write
SameProfile(a, b) ==
  /\ a.studentId = b.studentId
  /\ a.name = b.name
  /\ a.course = b.course
  /\ a.faceDescriptor = b.faceDescriptor

\* a student that is not active is in no list of active students and
\* stays inactive
StaysRemoved ==
  \A i \in 1..Len(students) :
    ~students[i].isActive =>
      /\ i \notin ActiveStudents
      /\ i <= Len(students')
      /\ ~students'[i].isActive
      /\ \A o \in SortedByName(ActiveStudents) :
           \A k \in 1..Len(o) :
             DescriptorEntry(students[o[k]]).id # students[i].studentId

\* C14 as stated: DELETE of an existing student changes nothing of its
\* document but the active flag.
C14_SoftDeleteOnlyFlag ==
  [][ \A id \in LedgerKeys :
        (DeleteStep(id) /\ HoldersIn(students, id) # {}) =>
          \A i \in HoldersIn(students, id) :
            students'[i] = [students[i] EXCEPT !.isActive = FALSE]
    ]_vars

\* C14, amended: DELETE of an existing student answers 200, sets its active
\* flag to false and its updatedAt to the time of the request, and leaves
\* its key, name, course and descriptor, all other students and the whole
\* ledger unchanged; DELETE of an unknown key answers 404 and changes
\* neither collection; and an inactive student is in no list of active
\* students and stays inactive under every later request.
C14_SoftDelete ==
  [][ /\ \A id \in LedgerKeys :
           DeleteStep(id) =>
             IF HoldersIn(students, id) = {}
               THEN /\ resp'.status = 404
                    /\ students' = students
                    /\ attendance' = attendance
               ELSE /\ resp'.status = 200
                    /\ DeleteFrame(id)
                    /\ \A i \in HoldersIn(students, id) :
                         /\ ~students'[i].isActive
                         /\ SameProfile(students'[i], students[i])
                         /\ students'[i].updatedAt = now
                         /\ i \notin ActiveStudents'
      /\ StaysRemoved
    ]_vars

\* a student was deleted on a later day than it was registered, while the
\* other student is active and the ledger holds a record
C14_Witness ==
  /\ Len(students) = 2
  /\ ~students[1].isActive
  /\ students[1].updatedAt > 0
  /\ students[2].isActive
  /\ resp.op = "delete"
  /\ resp.status = 200
  /\ Len(attendance) > 0
  /\ attendance[1].studentId = students[1].studentId

(***************************************************************************)
(* The distance.                                                           *)
(***************************************************************************)
\* the descriptors of the state: the probe and the loaded ones
DescriptorsAtHand ==
  { checkInDetections[i] : i \in 1..Len(checkInDetections) }
    \cup { studentDescriptors[k].faceData : k \in 1..Len(studentDescriptors) }

\* the distance of a descriptor to itself is 0, and the distance of two
\* descriptors of one length is the same in both directions
DistanceLaws ==
  \A v, w \in DescriptorsAtHand :
    /\ euclideanDistance(v, v) = Sqrt(Rat(0, 1))
    /\ Len(v) = Len(w) => euclideanDistance(v, w) = euclideanDistance(w, v)

\* C15: for descriptors v and w of one length, euclideanDistance(v, v) = 0
\* and euclideanDistance(v, w) = euclideanDistance(w, v); and a check-in
\* click with a probe identical to a loaded descriptor always matches a
\* student with that descriptor and sends the check-in with confidence 100.
C15_DistanceLaws ==
  [][ /\ DistanceLaws
      /\ (checkInDetections # <<>> /\ ProbeTwins # {} /\ VerifyStep) =>
           /\ sent'.op = "checkin"
           /\ \E k \in ProbeTwins :
                sent'.body.studentId = studentDescriptors[k].id
           /\ sent'.body.confidence.v = <<Rat(100, 1)>>
           /\ alert' = alert
    ]_vars

\* the probe equals the second loaded descriptor and is at a distance
\* other than 0 from the first, and the check-in of the second student was
\* sent with confidence 100
C15_Witness ==
  /\ Len(studentDescriptors) = 2
  /\ checkInDetections = <<studentDescriptors[2].faceData>>
  /\ euclideanDistance(checkInDetections[1], studentDescriptors[1].faceData)
       # Sqrt(Rat(0, 1))
  /\ sent.op = "checkin"
  /\ sent.body.studentId = studentDescriptors[2].id
  /\ sent.body.confidence.v = <<Rat(100, 1)>>

(***************************************************************************)
(* The ledger refers to students.                                          *)
(***************************************************************************)
\* C16: whenever the check-in handler appends a record to the ledger, a
\* student with the record's studentId is in the directory and active at
\* that moment.
C16_RecordsReferToActive ==
  [][ \A p \in Procs :
        (CheckinSaved(p) /\ Len(attendance') > Len(attendance)) =>
          \E i \in 1..Len(students) :
            /\ students[i].studentId = attendance'[Len(attendance')].studentId
            /\ students[i].isActive
    ]_vars


(***************************************************************************)
(* C17: at most one live stream and one running interval per view.         *)
(***************************************************************************)
\* the streams of a view with tracks that were not stopped
LiveOf(v) == { st \in liveStreams : st[1] = v }

\* the detection intervals of a view that were not cleared
RunningOf(v) == { i \in runningIntervals : i[1] = v }

\* the streams an init call of the view that is still awaiting will return
AwaitedOf(v) == { c.id : c \in { d \in initCalls : d.id[1] = v } }

\* C17: for each view, in every reachable state of the page at most one
\* camera stream has live tracks and at most one detection interval runs,
\* every live stream is the one held in checkInStream/registerStream or the
\* one an init call still awaiting is about to return, and every running
\* interval is the one held in checkInInterval/registerInterval, whatever
\* the interleaving of the init calls with each other's awaits and with the
\* stop buttons.
C17_OneStreamPerView ==
  \A v \in Views :
    /\ Cardinality(LiveOf(v)) <= 1
    /\ Cardinality(RunningOf(v)) <= 1
    /\ LiveOf(v) \subseteq {viewStream[v]} \cup AwaitedOf(v)
    /\ RunningOf(v) \subseteq {viewInterval[v]}

(***************************************************************************)
(* C18: a view that was left has its camera stopped.                       *)
(***************************************************************************)
\* nothing is pending that would start or continue an init call of the view
InitSettled(v) == timers[v] = 0 /\ AwaitedOf(v) = {}

\* C18: while another view is active and no init call of the view that was
\* left is pending, no stream of that view has live tracks and none of its
\* detection intervals is running, also when the navigation click arrived
\* while startCamera of that view was awaiting.
C18_LeftViewStopped ==
  \A v \in Views :
    (activeView # v /\ InitSettled(v)) => LiveOf(v) = {} /\ RunningOf(v) = {}

====
